---- MODULE Spec2Model ----
(***************************************************************************)
(* Model of track_applications.py: a manual-run Gmail job-application      *)
(* tracker that lists message ids page by page, fetches and parses each    *)
(* candidate message, and writes the records to a CSV file.                *)
(*                                                                         *)
(* Strings are modelled as sequences of tokens (words, punctuation marks,  *)
(* the newline "\n"); the empty string and None are both <<>>, because     *)
(* the code only ever tests these values for truthiness.                   *)
(***************************************************************************)
EXTENDS Integers, Sequences, FiniteSets, TLC

VARIABLES
    mailbox,      \* remote: the account's messages, newest first (distinct ids)
    csvExists,    \* os.path.exists(args.out)
    csvLines,     \* the lines of the CSV file, each a sequence of cells
    pc,           \* position of main(): idle, search, filter, process, done
    args,         \* the parsed command line: query, max, append
    ids,          \* search_message_ids: ids accumulated so far / returned
    req,          \* search_message_ids: offset of the next page request
    pagesFetched, \* the messages.list calls of this run, in order
    to_process,   \* main: the candidates left after filtering
    idx,          \* main: position of the for loop in to_process (1-based)
    rows,         \* main: the parsed records of this run
    fetchLog,     \* the messages.get calls of this run: [id, ok], in order
    csv0,         \* the file as it was when this run started
    prev,         \* what the previous finished run was (for re-run claims)
    text,         \* classifier harness: the input text
    status,       \* classifier harness: the label returned
    payload,      \* extractor harness: the input payload
    extracted     \* extractor harness: the text returned

vars == <<mailbox, csvExists, csvLines, pc, args, ids, req, pagesFetched,
          to_process, idx, rows, fetchLog, csv0, prev,
          text, status, payload, extracted>>

\* the variables of the two function harnesses, which a run leaves alone
harness == <<text, status, payload, extracted>>

----------------------------------------------------------------------------
(* Bounds of the model *)

\* number of ids one messages.list page carries (maxResults=500 in the code)
PageSize == 2
\* largest value of --max a run is started with (the smallest is -1)
MaxCap == 3
\* longest text handed to the classifier harness, in tokens
MaxTextLen == 3
\* most parts of one multipart payload handed to the extractor harness
MaxParts == 2

----------------------------------------------------------------------------
(* Sequence helpers *)

Take(s, n) == SubSeq(s, 1, IF n < Len(s) THEN n ELSE Len(s))

Drop(s, n) == SubSeq(s, n + 1, Len(s))

Range(s) == {s[i] : i \in 1..Len(s)}

IsPrefix(s, t) == Len(s) <= Len(t) /\ SubSeq(t, 1, Len(s)) = s

\* Python's s[:n], negative n included
SliceTo(s, n) ==
    IF n >= 0 THEN Take(s, n)
    ELSE Take(s, IF Len(s) + n > 0 THEN Len(s) + n ELSE 0)

\* str.lower() on one token
LowerTok(t) ==
    CASE t = "Offer" -> "offer"
      [] t = "Interview" -> "interview"
      [] t = "Unfortunately" -> "unfortunately"
      [] t = "Congratulations" -> "congratulations"
      [] t = "Your" -> "your"
      [] t = "Application" -> "application"
      [] t = "Subject" -> "subject"
      [] t = "SUBJECT" -> "subject"
      [] t = "From" -> "from"
      [] t = "Date" -> "date"
      [] t = "Greenhouse" -> "greenhouse"
      [] t = "Mail" -> "mail"
      [] t = "Role" -> "role"
      [] OTHER -> t

Lower(s) == [i \in 1..Len(s) |-> LowerTok(s[i])]

\* str.capitalize() on one (lower-case) token
CapitalizeTok(t) ==
    CASE t = "greenhouse" -> "Greenhouse"
      [] t = "acme" -> "Acme"
      [] t = "initech" -> "Initech"
      [] OTHER -> t

----------------------------------------------------------------------------
(* detect_status and STATUS_PATTERNS.  A pattern is matched against the    *)
(* token sequence: \bw\b is a token equal to w, a phrase is a run of       *)
(* adjacent tokens, and a.*b is a then b later on the same line.           *)

\* re.search(r"\bw1 w2 ...\b", t): the phrase occurs as adjacent tokens
HasPhrase(t, ph) ==
    \E i \in 1..Len(t) :
        /\ i + Len(ph) - 1 <= Len(t)
        /\ \A k \in 1..Len(ph) : t[i + k - 1] = ph[k]

\* the tokens of the vocabulary inside which a pattern fragment can match:
\* "offer" and "congratulations" carry no \b, "\bschedule" is open to the
\* right, "interview\b" to the left
TokensWith(w) ==
    CASE w = "offer" -> {"offer", "offers"}
      [] w = "schedule" -> {"schedule", "scheduled"}
      [] OTHER -> {w}

\* re.search(a.*b): a, then b later with no newline in between; as and bs are
\* the tokens the two ends may fall in
HasGap(t, as, bs) ==
    \E i \in 1..Len(t) : \E j \in (i + 1)..Len(t) :
        /\ t[i] \in as
        /\ t[j] \in bs
        /\ \A k \in i..j : t[k] # "\n"

\* whether one of the category's patterns is found in the lower-cased text t
CategoryMatches(c, t) ==
    CASE c = "Offer" ->
            \/ HasPhrase(t, <<"offer">>)
            \/ HasGap(t, TokensWith("congratulations"), TokensWith("offer"))
            \/ HasPhrase(t, <<"offer", "letter">>)
      [] c = "Interview" ->
            \/ HasPhrase(t, <<"interview">>)
            \/ HasGap(t, TokensWith("schedule"), TokensWith("interview"))
            \/ HasPhrase(t, <<"phone", "screen">>)
            \/ HasPhrase(t, <<"technical", "interview">>)
      [] c = "Rejected" ->
            \/ HasPhrase(t, <<"not", "selected">>)
            \/ HasPhrase(t, <<"we", "regret">>)
            \/ HasPhrase(t, <<"unfortunately">>)
            \/ HasPhrase(t, <<"rejected">>)
      [] c = "Submitted" ->
            \/ HasPhrase(t, <<"application", "received">>)
            \/ HasPhrase(t, <<"thank", "you", "for", "applying">>)
            \/ HasPhrase(t, <<"application", "submitted">>)
      [] c = "Assessment" ->
            \/ HasPhrase(t, <<"assessment">>)
            \/ HasPhrase(t, <<"assessment", "link">>)
            \/ HasPhrase(t, <<"code", "challenge">>)
            \/ HasPhrase(t, <<"online", "test">>)
      [] OTHER -> FALSE

\* a plausible slip: Interview listed before Offer
StatusOrderInterviewFirst ==
    <<"Interview", "Offer", "Rejected", "Submitted", "Assessment">>

\* the categories of STATUS_PATTERNS, in the order the dict literal lists them
STATUS_PATTERNS == <<"Offer", "Interview", "Rejected", "Submitted", "Assessment">>

RECURSIVE StatusFrom(_, _)
\* the for loop over STATUS_PATTERNS.items(), from position k on
StatusFrom(k, t) ==
    IF k > Len(STATUS_PATTERNS) THEN "Unknown"
    ELSE IF CategoryMatches(STATUS_PATTERNS[k], t) THEN STATUS_PATTERNS[k]
    ELSE StatusFrom(k + 1, t)

detect_status(txt) ==
    IF txt = <<>> THEN "Unknown" ELSE StatusFrom(1, Lower(txt))

----------------------------------------------------------------------------
(* extract_text_from_payload.  A payload is [mimeType, data, parts]; data  *)
(* is the base64url text of the body, <<>> when absent.                    *)

\* base64.urlsafe_b64decode(...).decode("utf-8", errors="replace"), per token
B64Tok(t) ==
    CASE t = "SGVsbG8" -> "Hello"
      [] t = "V29ybGQ" -> "World"
      [] t = "PHA-" -> "<p>"
      [] t = "PC9wPg" -> "</p>"
      [] t = "b2ZmZXI" -> "offer"
      [] t = "aW50ZXJ2aWV3" -> "interview"
      [] t = "Cg" -> "\n"
      [] t = "dW5mb3J0dW5hdGVseQ" -> "unfortunately"
      [] OTHER -> "U+FFFD"

B64Decode(d) == [i \in 1..Len(d) |-> B64Tok(d[i])]

HtmlTags == {"<p>", "</p>"}

RECURSIVE GetText(_, _, _)
\* BeautifulSoup(html).get_text(separator="\n"): the text nodes, joined by
\* newlines.  out is the text so far, open whether the last token was text.
GetText(h, out, open) ==
    IF h = <<>> THEN out
    ELSE IF h[1] \in HtmlTags THEN GetText(Tail(h), out, FALSE)
    ELSE IF open \/ out = <<>> THEN GetText(Tail(h), Append(out, h[1]), TRUE)
    ELSE GetText(Tail(h), out \o <<"\n", h[1]>>, TRUE)

RECURSIVE extract_text_from_payload(_)
RECURSIVE FirstPartText(_)
\* the loop over payload["parts"]: the first part that yields text
FirstPartText(parts) ==
    IF parts = <<>> THEN <<>>
    ELSE LET t == extract_text_from_payload(parts[1])
         IN  IF t # <<>> THEN t ELSE FirstPartText(Tail(parts))

extract_text_from_payload(p) ==
    IF p.mimeType = "text/plain" /\ p.data # <<>> THEN B64Decode(p.data)
    ELSE IF p.mimeType = "text/html" /\ p.data # <<>>
         THEN GetText(B64Decode(p.data), <<>>, FALSE)
    ELSE FirstPartText(p.parts)

----------------------------------------------------------------------------
(* The remote account: three messages, as messages.get returns them *)

MsgIds == {<<"m1">>, <<"m2">>, <<"m3">>}

Part(mime, data, parts) == [mimeType |-> mime, data |-> data, parts |-> parts]

\* get_message(service, msg_id) when the call succeeds
Raw(mid) ==
    CASE mid = <<"m1">> ->
            [id |-> <<"m1">>, threadId |-> <<"t1">>,
             snippet |-> <<"Hello">>,
             headers |-> <<
                [name |-> "Subject",
                 value |-> <<"Your", "application", ":", "Senior", "Engineer">>],
                [name |-> "From",
                 value |-> <<"Acme", "Recruiting", "<", "jobs", "@", "acme",
                             ".", "com", ">">>],
                [name |-> "Date",
                 value |-> <<"Mon, 02 Jun 2025 10:00:00 +0200">>]>>,
             payload |-> Part("multipart/alternative", <<>>, <<
                Part("text/plain", <<"SGVsbG8", "Cg", "V29ybGQ">>, <<>>),
                Part("text/html", <<"PHA-", "SGVsbG8", "PC9wPg">>, <<>>)>>)]
      [] mid = <<"m2">> ->
            [id |-> <<"m2">>, threadId |-> <<"t1">>,
             snippet |-> <<"interview">>,
             headers |-> <<
                [name |-> "From",
                 value |-> <<"<", "jobs", "@", "Mail", ".", "Greenhouse",
                             ".", "io", ">">>],
                [name |-> "SUBJECT", value |-> <<"Role", ":", "Analyst">>],
                [name |-> "Subject", value |-> <<"Quick", "update">>],
                [name |-> "Date",
                 value |-> <<"Mon, 02 Jun 2025 10:00:00 -0000">>]>>,
             payload |-> Part("text/html",
                <<"PHA-", "aW50ZXJ2aWV3", "PC9wPg", "PHA-", "SGVsbG8",
                  "PC9wPg">>, <<>>)]
      [] OTHER ->
            [id |-> mid, threadId |-> <<"t3">>,
             snippet |-> <<"unfortunately", "\n", "offers">>,
             headers |-> <<
                [name |-> "Date", value |-> <<"yesterday">>]>>,
             payload |-> Part("multipart/mixed", <<>>, <<
                Part("text/plain", <<>>, <<>>),
                Part("application/pdf", <<"SGVsbG8">>, <<>>)>>)]

----------------------------------------------------------------------------
(* parse_message and the field guessers *)

RECURSIVE header_value(_, _)
\* the first header whose lower-cased name is the lower-cased name asked for
header_value(headers, name) ==
    IF headers = <<>> THEN <<>>
    ELSE IF LowerTok(headers[1].name) = LowerTok(name) THEN headers[1].value
    ELSE header_value(Tail(headers), name)

\* the position of the first / the last token tok of s, 0 when there is none
FirstPos(s, tok) ==
    IF \E i \in 1..Len(s) : s[i] = tok
    THEN CHOOSE i \in 1..Len(s) : s[i] = tok /\ \A j \in 1..(i - 1) : s[j] # tok
    ELSE 0

LastPos(s, tok) ==
    IF \E i \in 1..Len(s) : s[i] = tok
    THEN CHOOSE i \in 1..Len(s) :
            s[i] = tok /\ \A j \in (i + 1)..Len(s) : s[j] # tok
    ELSE 0

\* email.utils.parseaddr: "name <address>" or a bare address
parseaddr(h) ==
    LET lt == FirstPos(h, "<")
        gt == FirstPos(h, ">")
    IN  IF lt > 0 /\ gt > lt
        THEN [name |-> SubSeq(h, 1, lt - 1), email |-> SubSeq(h, lt + 1, gt - 1)]
        ELSE [name |-> <<>>, email |-> h]

GenericSubdomains == {"mail", "no-reply", "noreply", "jobs", "careers"}

guess_company_from_from(header_from) ==
    LET pa == parseaddr(header_from)
        domain == Lower(Drop(pa.email, LastPos(pa.email, "@")))
        stripped == IF Len(domain) >= 2 /\ domain[1] \in GenericSubdomains
                       /\ domain[2] = "."
                    THEN Drop(domain, 2) ELSE domain
    IN  IF pa.name # <<>> THEN pa.name
        ELSE IF LastPos(pa.email, "@") > 0
             THEN IF stripped = <<>> \/ stripped[1] = "." THEN <<>>
                  ELSE <<CapitalizeTok(stripped[1])>>
        ELSE <<>>

\* the subject limit of the fallback branch
TitleLimit == 120

RECURSIVE StripSeparators(_)
\* .strip().strip(" -:")
StripSeparators(s) ==
    IF s # <<>> /\ s[1] \in {"-", ":"} THEN StripSeparators(Tail(s))
    ELSE IF s # <<>> /\ s[Len(s)] \in {"-", ":"}
         THEN StripSeparators(SubSeq(s, 1, Len(s) - 1))
    ELSE s

\* where the first pattern's group 1 ends at position i of the lower-cased
\* subject, 0 when it does not match there
ApplicationAt(l, i) ==
    IF i + 1 <= Len(l) /\ <<l[i], l[i + 1]>> \in
          {<<"application", "for">>, <<"applied", "for">>, <<"applied", "to">>}
    THEN i + 1
    ELSE IF i + 2 <= Len(l) /\ l[i] = "your" /\ l[i + 1] = "application"
            /\ l[i + 2] \in {":", "-"}
         THEN i + 2
    ELSE 0

RoleAt(l, i) ==
    IF i + 1 <= Len(l) /\ l[i] \in {"position", "role", "title"}
       /\ l[i + 1] \in {":", "-"}
    THEN i + 1 ELSE 0

guess_jobtitle_from_subject(subject) ==
    LET l == Lower(subject)
        hit1 == {i \in 1..Len(l) : ApplicationAt(l, i) > 0
                                   /\ ApplicationAt(l, i) < Len(l)}
        hit2 == {i \in 1..Len(l) : RoleAt(l, i) > 0 /\ RoleAt(l, i) < Len(l)}
        first(S) == CHOOSE i \in S : \A j \in S : i <= j
    IN  IF subject = <<>> THEN <<>>
        ELSE IF hit1 # {}
             THEN StripSeparators(Drop(subject, ApplicationAt(l, first(hit1))))
        ELSE IF hit2 # {} THEN Drop(subject, RoleAt(l, first(hit2)))
        ELSE IF Len(subject) < TitleLimit THEN subject
        ELSE Take(subject, TitleLimit)

\* parsedate_to_datetime, the move of a naive time to the local zone (taken
\* to be +01:00), and isoformat(); the raw header when parsing raises
DateIso(header_date) ==
    IF header_date = <<>> THEN <<>>
    ELSE CASE header_date = <<"Mon, 02 Jun 2025 10:00:00 +0200">> ->
                <<"2025-06-02T10:00:00+02:00">>
           [] header_date = <<"Mon, 02 Jun 2025 10:00:00 -0000">> ->
                <<"2025-06-02T11:00:00+01:00">>
           [] OTHER -> header_date

\* the length of the preview
PreviewLimit == 1000

RECURSIVE Strip(_)
\* str.strip() on a text whose newlines are already spaces
Strip(s) ==
    IF s # <<>> /\ s[1] = " " THEN Strip(Tail(s))
    ELSE IF s # <<>> /\ s[Len(s)] = " " THEN Strip(SubSeq(s, 1, Len(s) - 1))
    ELSE s

Preview(body) ==
    LET cut == Take(body, PreviewLimit)
    IN  Strip([i \in 1..Len(cut) |-> IF cut[i] = "\n" THEN " " ELSE cut[i]])

\* x or y
OrElse(x, y) == IF x # <<>> THEN x ELSE y

\* the column names, in file order
Headers == <<"message_id", "thread_id", "date", "sender_name", "sender_email",
             "subject", "company_guess", "job_title_guess", "status",
             "preview">>

parse_message(raw) ==
    LET subject == OrElse(header_value(raw.headers, "Subject"), raw.snippet)
        header_from == header_value(raw.headers, "From")
        header_date == header_value(raw.headers, "Date")
        body == OrElse(extract_text_from_payload(raw.payload), raw.snippet)
        sender == parseaddr(header_from)
    IN  [message_id |-> raw.id,
         thread_id |-> raw.threadId,
         date |-> DateIso(header_date),
         sender_name |-> sender.name,
         sender_email |-> sender.email,
         subject |-> subject,
         company_guess |-> guess_company_from_from(header_from),
         job_title_guess |-> guess_jobtitle_from_subject(subject),
         status |-> <<detect_status(subject \o <<"\n">> \o body)>>,
         preview |-> Preview(body)]

----------------------------------------------------------------------------
(* The CSV file: write_csv and load_existing_ids *)

HeaderLine == [k \in 1..Len(Headers) |-> <<Headers[k]>>]

\* DictWriter.writerow: the record's fields in column order
RowLine(r) == [k \in 1..Len(Headers) |-> r[Headers[k]]]

RowLines(rws) == [i \in 1..Len(rws) |-> RowLine(rws[i])]

\* a slip: the header goes with every write
WriteHeaderAlways(append, exists) == TRUE

\* write_header = not (append and os.path.exists(path))
WriteHeader(append, exists) == ~(append /\ exists)

\* a slip: the file is opened for writing whatever the mode
FileModeAlwaysW(append) == "w"

\* mode = "a" if append else "w"
FileMode(append) == IF append THEN "a" ELSE "w"

\* the file after write_csv(path, rows, append)
write_csv(exists, lines, rws, append) ==
    LET kept == IF FileMode(append) = "a" /\ exists THEN lines ELSE <<>>
        head == IF WriteHeader(append, exists) THEN <<HeaderLine>> ELSE <<>>
    IN  [exists |-> TRUE, lines |-> kept \o head \o RowLines(rws)]

\* csv.DictReader: the first line names the columns; row.get(col) of a line
DictGet(fieldnames, line, col) ==
    LET at == {j \in 1..Len(fieldnames) : fieldnames[j] = <<col>> /\ j <= Len(line)}
    IN  IF at = {} THEN <<>>
        ELSE line[CHOOSE j \in at : \A k \in at : k <= j]

\* a slip: nothing is loaded
LoadNoIds(exists, lines) == {}

\* a slip: the first data row is skipped along with the header
LoadSkipsFirstRow(exists, lines) ==
    IF ~exists \/ lines = <<>> THEN {}
    ELSE {DictGet(lines[1], lines[i], "message_id") : i \in 3..Len(lines)}
            \ {<<>>}

load_existing_ids(exists, lines) ==
    IF ~exists \/ lines = <<>> THEN {}
    ELSE {DictGet(lines[1], lines[i], "message_id") : i \in 2..Len(lines)}
            \ {<<>>}

----------------------------------------------------------------------------
(* The remote search: messages.list *)

Queries == {"any", "from:jobs@"}

\* whether the remote search finds the message under the query
QueryMatches(q, mid) ==
    \/ q = "any"
    \/ HasPhrase(header_value(Raw(mid).headers, "From"), <<"jobs", "@">>)

Matching(q) == SelectSeq(mailbox, LAMBDA m : QueryMatches(q, m))

\* one page of results: the ids from position offset on, and the token of the
\* next page (0 when there is none)
ListPage(q, offset) ==
    LET all == Matching(q)
        last == IF offset + PageSize - 1 < Len(all)
                THEN offset + PageSize - 1 ELSE Len(all)
    IN  [messages |-> SubSeq(all, offset, last),
         nextPageToken |-> IF last < Len(all) THEN last + 1 ELSE 0]

----------------------------------------------------------------------------
(* main(), step by step *)

NoArgs == [query |-> "any", max |-> 0, append |-> FALSE]

NoFile == [exists |-> FALSE, lines |-> <<>>]

NoPrev == [valid |-> FALSE, query |-> "", max |-> 0, failed |-> {}]

Idle ==
    /\ pc = "idle" /\ ids = <<>> /\ req = 0 /\ pagesFetched = 0
    /\ to_process = <<>> /\ idx = 0 /\ rows = <<>> /\ fetchLog = <<>>

HarnessIdle ==
    /\ text = <<>> /\ status = "" /\ payload = Part("", <<>>, <<>>)
    /\ extracted = <<>>

Init ==
    /\ mailbox = <<>>
    /\ csvExists = FALSE /\ csvLines = <<>>
    /\ args = NoArgs
    /\ csv0 = NoFile
    /\ prev = NoPrev
    /\ Idle
    /\ HarnessIdle

\* a message arrives in the account (newest first)
Deliver(m) ==
    /\ UNCHANGED harness
    /\ pc = "idle"
    /\ m \notin Range(mailbox)
    /\ mailbox' = <<m>> \o mailbox
    /\ prev' = NoPrev
    /\ UNCHANGED <<csvExists, csvLines, pc, args, ids, req, pagesFetched,
                   to_process, idx, rows, fetchLog, csv0>>

\* a message is deleted from the account
Delete(m) ==
    /\ UNCHANGED harness
    /\ pc = "idle"
    /\ m \in Range(mailbox)
    /\ mailbox' = SelectSeq(mailbox, LAMBDA x : x # m)
    /\ prev' = NoPrev
    /\ UNCHANGED <<csvExists, csvLines, pc, args, ids, req, pagesFetched,
                   to_process, idx, rows, fetchLog, csv0>>

\* the program is started: parse_args, get_gmail_service, the first request
StartRun(q, mx, ap) ==
    /\ UNCHANGED harness
    /\ pc = "idle"
    /\ args' = [query |-> q, max |-> mx, append |-> ap]
    /\ pc' = "search"
    /\ req' = 1
    /\ csv0' = [exists |-> csvExists, lines |-> csvLines]
    /\ UNCHANGED <<mailbox, csvExists, csvLines, ids, pagesFetched,
                   to_process, idx, rows, fetchLog, prev>>

\* one turn of the while loop of search_message_ids; the turn that leaves the
\* loop also returns ids[:max_results]
SearchPage ==
    /\ UNCHANGED harness
    /\ pc = "search"
    /\ LET res == ListPage(args.query, req)
           msgs == res.messages
           got == ids \o msgs
           more == /\ msgs # <<>>
                   /\ res.nextPageToken # 0
                   /\ ~(Len(got) >= args.max)
       IN  /\ pagesFetched' = pagesFetched + 1
           /\ IF more
              THEN /\ ids' = got
                   /\ req' = res.nextPageToken
                   /\ pc' = "search"
              ELSE /\ ids' = SliceTo(got, args.max)
                   /\ req' = 0
                   /\ pc' = "filter"
    /\ UNCHANGED <<mailbox, csvExists, csvLines, args, to_process, idx, rows,
                   fetchLog, csv0, prev>>

\* a slip: the ids found are processed unfiltered
CandidatesUnfiltered(append, exists, lines, found) == found

\* existing_ids and to_process
Candidates(append, exists, lines, found) ==
    LET existing_ids == IF append THEN load_existing_ids(exists, lines) ELSE {}
    IN  SelectSeq(found, LAMBDA i : i \notin existing_ids)

Filter ==
    /\ UNCHANGED harness
    /\ pc = "filter"
    /\ to_process' = Candidates(args.append, csvExists, csvLines, ids)
    /\ idx' = 1
    /\ pc' = "process"
    /\ UNCHANGED <<mailbox, csvExists, csvLines, args, ids, req, pagesFetched,
                   rows, fetchLog, csv0, prev>>

\* a slip: the handler keeps what it has of the record
HandleKeepsPartial(rws, mid, ok) ==
    IF ok THEN Append(rws, parse_message(Raw(mid)))
    ELSE Append(rws, [h \in Range(Headers) |->
                        IF h = "message_id" THEN mid ELSE <<>>])

\* the body of the for loop: try parse_message / except: print
HandleMessage(rws, mid, ok) ==
    IF ok THEN Append(rws, parse_message(Raw(mid))) ELSE rws

\* the next candidate is fetched and parsed
ParseOk ==
    /\ UNCHANGED harness
    /\ pc = "process" /\ idx <= Len(to_process)
    /\ rows' = HandleMessage(rows, to_process[idx], TRUE)
    /\ fetchLog' = Append(fetchLog, [id |-> to_process[idx], ok |-> TRUE])
    /\ idx' = idx + 1
    /\ UNCHANGED <<mailbox, csvExists, csvLines, pc, args, ids, req,
                   pagesFetched, to_process, csv0, prev>>

\* fetching or parsing the next candidate raises
ParseFail ==
    /\ UNCHANGED harness
    /\ pc = "process" /\ idx <= Len(to_process)
    /\ rows' = HandleMessage(rows, to_process[idx], FALSE)
    /\ fetchLog' = Append(fetchLog, [id |-> to_process[idx], ok |-> FALSE])
    /\ idx' = idx + 1
    /\ UNCHANGED <<mailbox, csvExists, csvLines, pc, args, ids, req,
                   pagesFetched, to_process, csv0, prev>>

\* the end of main: if rows: write_csv(...) else: print
Finish ==
    /\ UNCHANGED harness
    /\ pc = "process" /\ idx > Len(to_process)
    /\ LET out == IF rows # <<>>
                  THEN write_csv(csvExists, csvLines, rows, args.append)
                  ELSE [exists |-> csvExists, lines |-> csvLines]
       IN  csvExists' = out.exists /\ csvLines' = out.lines
    /\ pc' = "done"
    /\ UNCHANGED <<mailbox, args, ids, req, pagesFetched, to_process, idx,
                   rows, fetchLog, csv0, prev>>

FailedIds == {fetchLog[i].id : i \in {j \in 1..Len(fetchLog) : ~fetchLog[j].ok}}

\* the process ends
Exit ==
    /\ UNCHANGED harness
    /\ pc = "done"
    /\ pc' = "idle"
    /\ prev' = IF args.append
               THEN [valid |-> TRUE, query |-> args.query, max |-> args.max,
                     failed |-> FailedIds]
               ELSE NoPrev
    /\ ids' = <<>> /\ req' = 0 /\ pagesFetched' = 0 /\ to_process' = <<>>
    /\ idx' = 0 /\ rows' = <<>> /\ fetchLog' = <<>>
    /\ args' = NoArgs /\ csv0' = NoFile
    /\ UNCHANGED <<mailbox, csvExists, csvLines>>

Next ==
    \/ \E m \in MsgIds : Deliver(m)
    \/ \E m \in MsgIds : Delete(m)
    \/ \E q \in Queries, mx \in (-1)..MaxCap, ap \in BOOLEAN : StartRun(q, mx, ap)
    \/ SearchPage
    \/ Filter
    \/ ParseOk
    \/ ParseFail
    \/ Finish
    \/ Exit

Spec == Init /\ [][Next]_vars

----------------------------------------------------------------------------
(* Harness for detect_status: every text of up to MaxTextLen tokens *)

Vocabulary == {"offer", "offers", "Offer", "interview", "congratulations",
               "scheduled", "unfortunately", "application", "received",
               "assessment", "hello", "\n"}

Texts == UNION {[1..n -> Vocabulary] : n \in 0..MaxTextLen}

RunIdle ==
    /\ mailbox = <<>>
    /\ csvExists = FALSE /\ csvLines = <<>>
    /\ args = NoArgs
    /\ csv0 = NoFile
    /\ prev = NoPrev
    /\ ids = <<>> /\ req = 0 /\ pagesFetched = 0
    /\ to_process = <<>> /\ idx = 0 /\ rows = <<>> /\ fetchLog = <<>>

InitStatus ==
    /\ RunIdle
    /\ pc = "classify"
    /\ text \in Texts
    /\ status = ""
    /\ payload = Part("", <<>>, <<>>) /\ extracted = <<>>

Classify ==
    /\ pc = "classify"
    /\ status' = detect_status(text)
    /\ pc' = "classified"
    /\ UNCHANGED <<mailbox, csvExists, csvLines, args, ids, req, pagesFetched,
                   to_process, idx, rows, fetchLog, csv0, prev,
                   text, payload, extracted>>

SpecStatus == InitStatus /\ [][Classify]_vars

----------------------------------------------------------------------------
(* Harness for extract_text_from_payload: leaves, multipart payloads of up *)
(* to MaxParts leaves, and multipart payloads that nest one of those       *)

Bodies == {<<>>, <<"SGVsbG8">>, <<"PHA-", "V29ybGQ", "PC9wPg">>,
           <<"PHA-", "PC9wPg">>}

Leaves == {Part(m, d, <<>>) :
              m \in {"text/plain", "text/html", "application/pdf"}, d \in Bodies}

Multiparts ==
    {Part("multipart/alternative", <<>>, ps) :
        ps \in UNION {[1..n -> Leaves] : n \in 1..MaxParts}}

Nested ==
    {Part("multipart/mixed", <<>>, <<c, l>>) : c \in Multiparts, l \in Leaves}

Payloads == Leaves \cup Multiparts \cup Nested

InitExtract ==
    /\ RunIdle
    /\ pc = "extract"
    /\ payload \in Payloads
    /\ extracted = <<>>
    /\ text = <<>> /\ status = ""

Extract ==
    /\ pc = "extract"
    /\ extracted' = extract_text_from_payload(payload)
    /\ pc' = "extracted"
    /\ UNCHANGED <<mailbox, csvExists, csvLines, args, ids, req, pagesFetched,
                   to_process, idx, rows, fetchLog, csv0, prev,
                   text, status, payload>>

SpecExtract == InitExtract /\ [][Extract]_vars

----------------------------------------------------------------------------
(* Properties *)

\* the message_id cells of the data rows of a file, in file order
IdColumn(lines) == [i \in 1..(Len(lines) - 1) |-> lines[i + 1][1]]

Distinct(s) == \A i, j \in 1..Len(s) : i # j => s[i] # s[j]

\* the run in progress is an append run that repeats the previous append run:
\* same query, same cap, and the account has not changed in between
Rerun ==
    /\ args.append /\ prev.valid
    /\ args.query = prev.query /\ args.max = prev.max

\* the lines this run added behind the lines the file started with
AddedLines == Drop(csvLines, Len(csv0.lines))

\* the records of the candidates whose fetch and parse succeeded, in order
GoodRecords ==
    LET good == SelectSeq(fetchLog, LAMBDA e : e.ok)
    IN  [i \in 1..Len(good) |-> parse_message(Raw(good[i].id))]

\* C1: after any sequence of append and overwrite runs that starts from an
\* absent file, no two rows of the file carry the same message_id.
C1_UniqueMessageIds == Distinct(IdColumn(csvLines))

\* an append run has finished whose search returned an id the file already
\* held, and the file holds two rows or more
C1_Witness ==
    /\ pc = "done" /\ args.append
    /\ Range(ids) \cap Range(IdColumn(csv0.lines)) # {}
    /\ Len(csvLines) >= 3

\* C2 as stated: an append run that repeats the previous append run (same
\* query and cap, account unchanged) adds no row to the file.
C2_RerunAddsNothing ==
    (pc = "done" /\ Rerun) =>
        (csvLines = csv0.lines /\ csvExists = csv0.exists)

\* C2 as amended: an append run that repeats the previous append run adds rows
\* only for candidates whose fetch or parse failed in that previous run; when
\* none failed there, it leaves the file as it was.
C2_RerunAddsOnlyFailed ==
    (pc = "done" /\ Rerun) =>
        /\ IsPrefix(csv0.lines, csvLines)
        /\ \A i \in 1..Len(AddedLines) :
              AddedLines[i] = HeaderLine \/ AddedLines[i][1] \in prev.failed
        /\ prev.failed = {} =>
              (csvLines = csv0.lines /\ csvExists = csv0.exists)

\* a repeated append run has finished after a first run in which nothing
\* failed, the search returned two ids, and the file is as it was
C2_Witness ==
    /\ pc = "done" /\ Rerun
    /\ prev.failed = {}
    /\ Len(ids) >= 2
    /\ csv0.exists /\ csvLines = csv0.lines

\* C3: an overwrite run leaves the file holding the header row followed by
\* exactly the records of this run, also when the run produced none.
C3_OverwriteIsFresh ==
    (pc = "done" /\ ~args.append) =>
        (csvExists /\ csvLines = <<HeaderLine>> \o RowLines(rows))

\* C4: an append run keeps the lines the file started with, in place and
\* unchanged, and adds only rows whose message_id the file did not hold.
C4_AppendKeepsRows ==
    (pc = "done" /\ args.append) =>
        /\ csv0.exists => csvExists
        /\ IsPrefix(csv0.lines, csvLines)
        /\ \A i \in 1..Len(AddedLines) :
              \/ ~csv0.exists /\ i = 1 /\ AddedLines[i] = HeaderLine
              \/ AddedLines[i][1] \notin Range(IdColumn(csv0.lines))

\* an append run has added a row to a file that held rows already
C4_Witness ==
    /\ pc = "done" /\ args.append
    /\ csv0.exists /\ Len(csv0.lines) >= 2
    /\ Len(csvLines) > Len(csv0.lines)

\* C5: every candidate is tried, in list order, whether or not an earlier one
\* failed; the run writes exactly the complete ten-cell records of those that
\* succeeded, in that order, and nothing for one that failed.
C5_FailuresAreSkipped ==
    pc = "done" =>
        /\ [i \in 1..Len(fetchLog) |-> fetchLog[i].id] = to_process
        /\ \A i \in 1..Len(AddedLines) : Len(AddedLines[i]) = 10
        /\ IF GoodRecords = <<>>
           THEN csvLines = csv0.lines /\ csvExists = csv0.exists
           ELSE /\ csvExists
                /\ csvLines =
                     IF args.append /\ csv0.exists
                     THEN csv0.lines \o RowLines(GoodRecords)
                     ELSE <<HeaderLine>> \o RowLines(GoodRecords)

\* a run has finished in which a candidate failed and a later one succeeded
C5_Witness ==
    /\ pc = "done"
    /\ \E i, j \in 1..Len(fetchLog) :
          i < j /\ ~fetchLog[i].ok /\ fetchLog[j].ok

\* C6: detect_status returns Unknown for the empty text and for a text no
\* category matches, and otherwise the first category, in the order Offer,
\* Interview, Rejected, Submitted, Assessment, one of whose patterns is found
\* in the lower-cased text; a text with an Offer and an Interview pattern is
\* an Offer.
C6_FirstCategoryWins ==
    pc = "classified" =>
        LET order == <<"Offer", "Interview", "Rejected", "Submitted",
                       "Assessment">>
            t == Lower(text)
            hits == {k \in 1..5 : CategoryMatches(order[k], t)}
        IN  /\ status \in Range(order) \cup {"Unknown"}
            /\ (text = <<>> \/ hits = {}) <=> status = "Unknown"
            /\ \A k \in 1..5 :
                  status = order[k] <=> (k \in hits /\ \A j \in hits : k <= j)
            /\ (1 \in hits /\ 2 \in hits) => status = "Offer"

\* a text with an Offer and an Interview pattern, the Interview one first, has
\* been classified
C6_Witness ==
    /\ pc = "classified"
    /\ Len(text) >= 2
    /\ text[1] = "interview"
    /\ CategoryMatches("Offer", Lower(text))

\* C7: search_message_ids returns the ids of the pages in page order, cut to
\* at most max_results ids, and it stops fetching only when it has max_results
\* ids or the page it fetched last named no next page.
C7_SearchReturnsCappedPrefix ==
    pc = "filter" =>
        /\ Len(ids) <= (IF args.max > 0 THEN args.max ELSE 0)
        /\ ids = Take(Matching(args.query), args.max)
        /\ \/ pagesFetched * PageSize >= args.max
           \/ pagesFetched * PageSize >= Len(Matching(args.query))

\* C8: whenever the file exists its first line is the header row and no other
\* line is a header row.
C8_OneHeaderFirst ==
    /\ ~csvExists => csvLines = <<>>
    /\ csvExists =>
          /\ csvLines # <<>>
          /\ csvLines[1] = HeaderLine
          /\ \A i \in 2..Len(csvLines) : csvLines[i] # HeaderLine

\* an append run has created the file, which did not exist, and written two
\* rows or more to it
C8_Witness ==
    /\ pc = "done" /\ args.append
    /\ ~csv0.exists /\ csvExists
    /\ Len(csvLines) >= 3

\* C9: for a payload whose parts hold a text/plain part with content and a
\* text/html part with content, extract_text_from_payload returns the decoded
\* text of the plain part, in whichever order the parts come.
C9_PlainBeforeHtml ==
    pc = "extracted" =>
        LET ps == payload.parts
            plain == {i \in 1..Len(ps) :
                        ps[i].mimeType = "text/plain" /\ ps[i].data # <<>>}
            html == {i \in 1..Len(ps) :
                        ps[i].mimeType = "text/html" /\ ps[i].data # <<>>}
        IN  (plain # {} /\ html # {}) =>
                \E i \in plain : extracted = B64Decode(ps[i].data)

\* C10: in an append run nothing is fetched before the ids are filtered; no
\* message is fetched whose id the file held when the run started; and the
\* fetches are the remaining candidates, each at most once, in list order.
C10_FilterBeforeFetch ==
    /\ pc \in {"search", "filter"} => fetchLog = <<>>
    /\ (pc \in {"process", "done"} /\ args.append) =>
          LET fetched == [i \in 1..Len(fetchLog) |-> fetchLog[i].id]
              stored == Range(IdColumn(csv0.lines))
          IN  /\ Range(fetched) \cap stored = {}
              /\ Distinct(fetched)
              /\ IsPrefix(fetched,
                          SelectSeq(ids, LAMBDA i : i \notin stored))

\* an append run is fetching: the search returned an id the file holds and
\* two other candidates have been fetched
C10_Witness ==
    /\ pc = "process" /\ args.append
    /\ Range(ids) \cap Range(IdColumn(csv0.lines)) # {}
    /\ Len(fetchLog) >= 2

====
